---- MODULE Spec2Model ----
\* Model of the renderer of green-tea (src/src/renderer.rs): render_lines walks a
\* sequence of sibling nodes and accumulates a Context, render assembles the
\* top-level Context into the generated Gleam source text.
\*
\* A Rust String is modelled as a sequence of pieces. A piece is a TLA+ string
\* holding no line feed, or the line feed NL itself. The characters of a Text
\* node are one-character pieces, so that replace and trim work on characters.
EXTENDS Integers, Sequences, FiniteSets, TLC

VARIABLES nodes, pos, builder_lines, imports, functions, typed_params,
          includes_for_loop, has_template_content, pc, result

vars == <<nodes, pos, builder_lines, imports, functions, typed_params,
          includes_for_loop, has_template_content, pc, result>>

locals == <<builder_lines, imports, functions, typed_params,
            includes_for_loop, has_template_content>>

-----------------------------------------------------------------------------
\* Bounds of the input node trees.

MaxSiblings == 3

MaxBody == 2

MaxDepth == 2

MaxTextLen == 3

-----------------------------------------------------------------------------
\* Strings.

NL == "\n"

Quote == "\""

Backslash == "\\"

RECURSIVE Concat(_)
Concat(parts) ==
    IF parts = <<>> THEN <<>> ELSE Head(parts) \o Concat(Tail(parts))

\* [String]::join(sep)
RECURSIVE Join(_, _)
Join(parts, sep) ==
    IF parts = <<>> THEN <<>>
    ELSE IF Len(parts) = 1 THEN parts[1]
    ELSE parts[1] \o sep \o Join(Tail(parts), sep)

\* char::is_whitespace on the characters of the model
IsWhitespace(c) == c \in {" ", NL}

RECURSIVE TrimStart(_)
TrimStart(text) ==
    IF text # <<>> /\ IsWhitespace(Head(text)) THEN TrimStart(Tail(text)) ELSE text

RECURSIVE TrimEnd(_)
TrimEnd(text) ==
    IF text # <<>> /\ IsWhitespace(text[Len(text)])
    THEN TrimEnd(SubSeq(text, 1, Len(text) - 1))
    ELSE text

\* str::trim
Trim(text) == TrimEnd(TrimStart(text))

\* A mutant of Replace: backslashes are escaped as well as quotes.
ReplaceBackslashToo(text) ==
    Concat([i \in 1..Len(text) |->
        IF text[i] \in {Quote, Backslash} THEN <<Backslash, text[i]>> ELSE <<text[i]>>])

\* text.replace('\"', "\\\"")
Replace(text) ==
    Concat([i \in 1..Len(text) |->
        IF text[i] = Quote THEN <<Backslash, Quote>> ELSE <<text[i]>>])

-----------------------------------------------------------------------------
\* parser::Node

Text(text) == [kind |-> "Text", text |-> text]

Identifier(name) == [kind |-> "Identifier", name |-> name]

Builder(name) == [kind |-> "Builder", name |-> name]

Import(import_details) == [kind |-> "Import", import_details |-> import_details]

With(identifier, range, type_) ==
    [kind |-> "With", identifier |-> identifier, range |-> range, type_ |-> type_]

If(identifier_name, if_nodes, else_nodes) ==
    [kind |-> "If", identifier_name |-> identifier_name,
     if_nodes |-> if_nodes, else_nodes |-> else_nodes]

\* entry_type is an Option<String>: <<>> is None, <<t>> is Some(t)
For(entry_identifier, entry_type, list_identifier, loop_nodes) ==
    [kind |-> "For", entry_identifier |-> entry_identifier, entry_type |-> entry_type,
     list_identifier |-> list_identifier, loop_nodes |-> loop_nodes]

BlockFunction(visiblity, head, body_nodes, range) ==
    [kind |-> "BlockFunction", visiblity |-> visiblity, head |-> head,
     body_nodes |-> body_nodes, range |-> range]

-----------------------------------------------------------------------------
\* struct Context and Result<Context, RenderError>

Context(bl, im, fu, tp, ifl, htc) ==
    [builder_lines |-> bl, imports |-> im, functions |-> fu, typed_params |-> tp,
     includes_for_loop |-> ifl, has_template_content |-> htc]

\* the locals of render_lines as it starts
NewContext == Context(<<>>, <<>>, <<>>, <<>>, FALSE, FALSE)

Ok(value) == [ok |-> TRUE, value |-> value]

\* RenderError::DuplicateParamName(String, Range)
DuplicateParamName(name, range) == [ok |-> FALSE, name |-> name, range |-> range]

-----------------------------------------------------------------------------
\* The arms of the match in render_lines. Each takes the locals of the running
\* call as a Context and gives Ok(the locals after the arm) or the error returned.

RECURSIVE render_lines(_)

\* A mutant of TextArm: any text, whitespace or not, counts as content.
TextArmAnyText(c, n) ==
    Ok([c EXCEPT
        !.builder_lines = @ \o <<"    let builder = string_builder.append(builder, ", Quote>>
                            \o Replace(n.text) \o <<Quote, ")", NL>>,
        !.has_template_content = TRUE])

TextArm(c, n) ==
    Ok([c EXCEPT
        !.builder_lines = @ \o <<"    let builder = string_builder.append(builder, ", Quote>>
                            \o Replace(n.text) \o <<Quote, ")", NL>>,
        !.has_template_content = @ \/ ~(Trim(n.text) = <<>>)])

\* A mutant of IdentifierArm: the statement is put in front of builder_lines.
IdentifierArmPrepend(c, n) ==
    Ok([c EXCEPT
        !.builder_lines = <<"    let builder = string_builder.append(builder, ",
                            n.name, ")", NL>> \o @,
        !.has_template_content = TRUE])

IdentifierArm(c, n) ==
    Ok([c EXCEPT
        !.builder_lines = @ \o <<"    let builder = string_builder.append(builder, ",
                                 n.name, ")", NL>>,
        !.has_template_content = TRUE])

BuilderArm(c, n) ==
    Ok([c EXCEPT
        !.builder_lines = @ \o <<"    let builder = string_builder.append_builder(builder, ",
                                 n.name, ")", NL>>,
        !.has_template_content = TRUE])

ImportArm(c, n) ==
    Ok([c EXCEPT !.imports = Append(@, n.import_details)])

\* A mutant of WithArm: a duplicate is one with the same name and the same type.
WithArmSameType(c, n) ==
    IF \E i \in 1..Len(c.typed_params) : c.typed_params[i] = <<n.identifier, n.type_>>
    THEN DuplicateParamName(n.identifier, n.range)
    ELSE Ok([c EXCEPT !.typed_params = Append(@, <<n.identifier, n.type_>>),
                      !.has_template_content = TRUE])

WithArm(c, n) ==
    IF \E i \in 1..Len(c.typed_params) : c.typed_params[i][1] = n.identifier
    THEN DuplicateParamName(n.identifier, n.range)
    ELSE Ok([c EXCEPT !.typed_params = Append(@, <<n.identifier, n.type_>>),
                      !.has_template_content = TRUE])

\* the statement IfArm emits for the rendered branches
CaseStatement(n, if_context, else_context) ==
    <<"    let builder = case ", n.identifier_name, " {", NL,
      "        True -> {", NL,
      "            ">> \o if_context.value.builder_lines \o <<NL,
      "            builder", NL,
      "        }", NL,
      "        False -> {", NL,
      "            ">> \o else_context.value.builder_lines \o <<NL,
      "            builder", NL,
      "        }", NL,
      "}", NL>>

\* A mutant of IfArm: the else-branch is rendered before the then-branch.
IfArmElseFirst(c, n) ==
    LET else_context == render_lines(n.else_nodes) IN
    IF ~else_context.ok THEN else_context ELSE
    LET if_context == render_lines(n.if_nodes) IN
    IF ~if_context.ok THEN if_context ELSE
    Ok([c EXCEPT
        !.builder_lines = @ \o CaseStatement(n, if_context, else_context),
        !.includes_for_loop = @ \/ if_context.value.includes_for_loop
                                \/ else_context.value.includes_for_loop,
        !.has_template_content = TRUE])

\* A mutant of IfArm: a conditional counts as content only if a branch does.
IfArmContentFromBranches(c, n) ==
    LET if_context == render_lines(n.if_nodes) IN
    IF ~if_context.ok THEN if_context ELSE
    LET else_context == render_lines(n.else_nodes) IN
    IF ~else_context.ok THEN else_context ELSE
    Ok([c EXCEPT
        !.builder_lines = @ \o CaseStatement(n, if_context, else_context),
        !.includes_for_loop = @ \/ if_context.value.includes_for_loop
                                \/ else_context.value.includes_for_loop,
        !.has_template_content = @ \/ if_context.value.has_template_content
                                   \/ else_context.value.has_template_content])

\* A mutant of IfArm: the functions of the branches are kept.
IfArmKeepFunctions(c, n) ==
    LET if_context == render_lines(n.if_nodes) IN
    IF ~if_context.ok THEN if_context ELSE
    LET else_context == render_lines(n.else_nodes) IN
    IF ~else_context.ok THEN else_context ELSE
    Ok([c EXCEPT
        !.builder_lines = @ \o CaseStatement(n, if_context, else_context),
        !.functions = @ \o if_context.value.functions \o else_context.value.functions,
        !.includes_for_loop = @ \/ if_context.value.includes_for_loop
                                \/ else_context.value.includes_for_loop,
        !.has_template_content = TRUE])

IfArm(c, n) ==
    LET if_context == render_lines(n.if_nodes) IN
    IF ~if_context.ok THEN if_context ELSE
    LET else_context == render_lines(n.else_nodes) IN
    IF ~else_context.ok THEN else_context ELSE
    Ok([c EXCEPT
        !.builder_lines = @ \o CaseStatement(n, if_context, else_context),
        !.includes_for_loop = @ \/ if_context.value.includes_for_loop
                                \/ else_context.value.includes_for_loop,
        !.has_template_content = TRUE])

ForArm(c, n) ==
    LET entry_type == IF n.entry_type = <<>> THEN <<>> ELSE <<": ", n.entry_type[1]>>
        loop_context == render_lines(n.loop_nodes) IN
    IF ~loop_context.ok THEN loop_context ELSE
    Ok([c EXCEPT
        !.builder_lines = @
            \o <<"    let builder = list.fold(", n.list_identifier,
                 ", builder, fn(builder, ", n.entry_identifier>> \o entry_type \o <<") {", NL,
                 "        ">> \o loop_context.value.builder_lines \o <<NL,
                 "        builder", NL,
                 "})", NL>>,
        !.includes_for_loop = TRUE,
        !.has_template_content = TRUE])

\* the function BlockFunctionArm generates for the rendered body
FunctionText(n, body) ==
    <<IF n.visiblity = "Private" THEN "" ELSE "pub ",
      "fn ", n.head, " -> StringBuilder {", NL,
      "    let builder = string_builder.from_string(\"\")", NL>>
    \o body \o <<NL,
      "    builder", NL,
      "}">>

\* A mutant of BlockFunctionArm: the parameters, imports and content flag of the
\* body are merged into the enclosing scope.
BlockFunctionArmMerged(c, n) ==
    LET body_context == render_lines(n.body_nodes) IN
    IF ~body_context.ok THEN body_context ELSE
    Ok([c EXCEPT
        !.functions = Append(@, FunctionText(n, body_context.value.builder_lines)),
        !.typed_params = @ \o body_context.value.typed_params,
        !.imports = @ \o body_context.value.imports,
        !.has_template_content = @ \/ body_context.value.has_template_content,
        !.includes_for_loop = @ \/ body_context.value.includes_for_loop])

\* A mutant of BlockFunctionArm: a loop in the body is not reported upward.
BlockFunctionArmNoLoop(c, n) ==
    LET body_context == render_lines(n.body_nodes) IN
    IF ~body_context.ok THEN body_context ELSE
    Ok([c EXCEPT
        !.functions = Append(@, FunctionText(n, body_context.value.builder_lines))])

BlockFunctionArm(c, n) ==
    LET body_context == render_lines(n.body_nodes) IN
    IF ~body_context.ok THEN body_context ELSE
    LET body == body_context.value.builder_lines IN
    Ok([c EXCEPT
        !.functions = Append(@, FunctionText(n, body)),
        !.includes_for_loop = @ \/ body_context.value.includes_for_loop])

Arm(c, n) ==
    CASE n.kind = "Text" -> TextArm(c, n)
      [] n.kind = "Identifier" -> IdentifierArm(c, n)
      [] n.kind = "Builder" -> BuilderArm(c, n)
      [] n.kind = "Import" -> ImportArm(c, n)
      [] n.kind = "With" -> WithArm(c, n)
      [] n.kind = "If" -> IfArm(c, n)
      [] n.kind = "For" -> ForArm(c, n)
      [] n.kind = "BlockFunction" -> BlockFunctionArm(c, n)

\* the loop of render_lines from position i on, with the locals c
RECURSIVE render_loop(_, _, _)
render_loop(ns, i, c) ==
    IF i > Len(ns) THEN Ok(c)
    ELSE LET r == Arm(c, ns[i]) IN
         IF r.ok THEN render_loop(ns, i + 1, r.value) ELSE r

render_lines(ns) == render_loop(ns, 1, NewContext)

-----------------------------------------------------------------------------
\* render, after render_lines has returned Ok(context)

\* env!("CARGO_PKG_NAME") and the file name of the tests
prog_name == "green-tea"

from_file_name == "-test-"

import_lines(c) ==
    Join([i \in 1..Len(c.imports) |-> <<"import ", c.imports[i]>>], <<NL>>)

params_string(c) ==
    Join([i \in 1..Len(c.typed_params) |->
            <<c.typed_params[i][1], " ", c.typed_params[i][1], ": ", c.typed_params[i][2]>>],
         <<", ">>)

args_string(c) ==
    Join([i \in 1..Len(c.typed_params) |->
            <<c.typed_params[i][1], ": ", c.typed_params[i][1]>>],
         <<", ">>)

functions_block(c) ==
    IF c.functions = <<>> THEN <<>> ELSE Join(c.functions, <<NL, NL>>)

list_import(c) ==
    IF c.includes_for_loop THEN <<"import gleam/list", NL>> ELSE <<>>

render_functions(c) ==
    IF c.has_template_content
    THEN <<NL,
           "pub fn render_builder(">> \o params_string(c) \o <<") -> StringBuilder {", NL,
           "    let builder = string_builder.from_string(\"\")", NL>>
         \o c.builder_lines \o <<NL,
           "    builder", NL,
           "}", NL,
           NL,
           "pub fn render(">> \o params_string(c) \o <<") -> String {", NL,
           "    string_builder.to_string(render_builder(">> \o args_string(c) \o <<"))", NL,
           "}", NL>>
    ELSE <<>>

output(c) ==
    <<"// DO NOT EDIT: Code generated by ", prog_name, " from ", from_file_name, NL,
      NL,
      "import gleam/string_builder.{type StringBuilder}", NL>>
    \o list_import(c) \o <<NL>>
    \o import_lines(c) \o functions_block(c) \o <<NL>>
    \o render_functions(c) \o <<NL>>

-----------------------------------------------------------------------------
\* The node trees handed to render.

\* all sequences over S of length at most n
SeqsUpTo(S, n) == UNION {[1..k -> S] : k \in 0..n}

\* The parser gives every node the range of source positions it was read from:
\* the range of a node is modelled as a number that encodes its place in the tree.
RECURSIVE Place(_, _)
Place(ns, base) ==
    [i \in 1..Len(ns) |->
        LET n == ns[i]
            r == base * 8 + i IN
        CASE n.kind = "With" -> [n EXCEPT !.range = r]
          [] n.kind = "If" -> [n EXCEPT !.if_nodes = Place(@, 2 * r),
                                       !.else_nodes = Place(@, 2 * r + 1)]
          [] n.kind = "For" -> [n EXCEPT !.loop_nodes = Place(@, 2 * r)]
          [] n.kind = "BlockFunction" -> [n EXCEPT !.range = r,
                                                  !.body_nodes = Place(@, 2 * r)]
          [] OTHER -> n]

Chars == {"a", " ", Quote, Backslash, NL}

TextNodes == {Text(t) : t \in SeqsUpTo(Chars, MaxTextLen)}

ImportPaths == {"gleam/string", "gleam/list"}

WithNodes == {With("x", 0, "String"), With("x", 0, "Int"), With("y", 0, "String")}

Leaves ==
    {Text(<<" ">>), Text(<<"a">>), Identifier("name"), Builder("name")}
    \cup {Import(p) : p \in ImportPaths} \cup WithNodes

TopComposites ==
    {If("is_user", <<Text(<<"a">>)>>, <<>>),
     For("item", <<>>, "list", <<Identifier("item")>>),
     BlockFunction("Public", "f()", <<Text(<<"a">>)>>, 0),
     BlockFunction("Private", "g()", <<>>, 0)}

InnerLeaves ==
    {Text(<<"a">>), With("x", 0, "String"), With("x", 0, "Int"), Import("gleam/string")}

Bodies == SeqsUpTo(InnerLeaves, MaxBody)

Conditionals == {If("is_user", b1, b2) : b1, b2 \in Bodies}

Scopes ==
    {If("is_user", b, <<>>) : b \in Bodies}
    \cup {For("item", <<"Item">>, "list", b) : b \in Bodies}
    \cup {BlockFunction("Public", "f()", b, 0) : b \in Bodies}

Wrap(S) ==
    {If("is_admin", <<c>>, <<>>) : c \in S}
    \cup {If("is_admin", <<>>, <<c>>) : c \in S}
    \cup {For("entry", <<>>, "my_list", <<c>>) : c \in S}
    \cup {BlockFunction("Private", "g()", <<c>>, 0) : c \in S}

RECURSIVE Nested(_)
Nested(d) == IF d = 0 THEN Scopes ELSE Nested(d - 1) \cup Wrap(Nested(d - 1))

Documents ==
    {<<t>> : t \in TextNodes}
    \cup SeqsUpTo(Leaves \cup TopComposites, MaxSiblings)
    \cup {<<c>> : c \in Conditionals \cup Nested(MaxDepth)}
    \cup {<<l, c>> : l \in {With("x", 0, "Int"), Import("gleam/list")}, c \in Scopes}

-----------------------------------------------------------------------------
\* The state machine: render calls render_lines on the top-level nodes, one step
\* per turn of its loop, and then assembles the output.

Init ==
    /\ nodes \in {Place(d, 0) : d \in Documents}
    /\ pos = 1
    /\ builder_lines = <<>>
    /\ imports = <<>>
    /\ functions = <<>>
    /\ typed_params = <<>>
    /\ includes_for_loop = FALSE
    /\ has_template_content = FALSE
    /\ pc = "render_lines"
    /\ result = [tag |-> "None"]

\* the locals of the top-level call of render_lines, as a Context
Locals ==
    Context(builder_lines, imports, functions, typed_params,
            includes_for_loop, has_template_content)

\* iter.peek() is Some(node of this kind)
Peek(kind) ==
    /\ pc = "render_lines"
    /\ pos <= Len(nodes)
    /\ nodes[pos].kind = kind

\* iter.next(), then the arm's outcome r: the locals are updated, or the error
\* leaves render_lines and, by the ? of render, render itself
Taken(r) ==
    /\ pos' = pos + 1
    /\ nodes' = nodes
    /\ IF r.ok
       THEN /\ builder_lines' = r.value.builder_lines
            /\ imports' = r.value.imports
            /\ functions' = r.value.functions
            /\ typed_params' = r.value.typed_params
            /\ includes_for_loop' = r.value.includes_for_loop
            /\ has_template_content' = r.value.has_template_content
            /\ UNCHANGED <<pc, result>>
       ELSE /\ pc' = "done"
            /\ result' = [tag |-> "Err", name |-> r.name, range |-> r.range]
            /\ UNCHANGED locals

RenderText == Peek("Text") /\ Taken(TextArm(Locals, nodes[pos]))

RenderIdentifier == Peek("Identifier") /\ Taken(IdentifierArm(Locals, nodes[pos]))

RenderBuilder == Peek("Builder") /\ Taken(BuilderArm(Locals, nodes[pos]))

RenderImport == Peek("Import") /\ Taken(ImportArm(Locals, nodes[pos]))

RenderWith == Peek("With") /\ Taken(WithArm(Locals, nodes[pos]))

RenderIf == Peek("If") /\ Taken(IfArm(Locals, nodes[pos]))

RenderFor == Peek("For") /\ Taken(ForArm(Locals, nodes[pos]))

RenderBlockFunction == Peek("BlockFunction") /\ Taken(BlockFunctionArm(Locals, nodes[pos]))

\* None => break, and render_lines returns Ok(Context { .. })
RenderNone ==
    /\ pc = "render_lines"
    /\ pos > Len(nodes)
    /\ pc' = "render"
    /\ UNCHANGED <<nodes, pos, locals, result>>

\* render, from the Context returned to Ok(output)
Render ==
    /\ pc = "render"
    /\ pc' = "done"
    /\ result' = [tag |-> "Ok", output |-> output(Locals)]
    /\ UNCHANGED <<nodes, pos, locals>>

Next ==
    \/ RenderText
    \/ RenderIdentifier
    \/ RenderBuilder
    \/ RenderImport
    \/ RenderWith
    \/ RenderIf
    \/ RenderFor
    \/ RenderBlockFunction
    \/ RenderNone
    \/ Render

Spec == Init /\ [][Next]_vars

-----------------------------------------------------------------------------
\* What the properties below are stated with: the node tree and the output text,
\* read without the renderer.

\* the lines of a text, each as one string (the text split at its line feeds):
\* the lines of the two halves, the last line of the first half running on into
\* the first line of the second
RECURSIVE Lines(_)
Lines(s) ==
    IF s = <<>> THEN <<"">>
    ELSE IF Len(s) = 1 THEN (IF s[1] = NL THEN <<"", "">> ELSE <<s[1]>>)
    ELSE LET half == Len(s) \div 2
             left == Lines(SubSeq(s, 1, half))
             right == Lines(SubSeq(s, half + 1, Len(s))) IN
         SubSeq(left, 1, Len(left) - 1)
         \o <<left[Len(left)] \o right[1]>>
         \o Tail(right)

\* the nodes of s of the given kind, in order
OfKind(s, kind) == LET K(n) == n.kind = kind IN SelectSeq(s, K)

\* every sibling sequence of the tree: ns, the branches and the bodies below it
RECURSIVE AllScopes(_)
AllScopes(ns) ==
    {ns} \cup UNION {
        LET n == ns[i] IN
        CASE n.kind = "If" -> AllScopes(n.if_nodes) \cup AllScopes(n.else_nodes)
          [] n.kind = "For" -> AllScopes(n.loop_nodes)
          [] n.kind = "BlockFunction" -> AllScopes(n.body_nodes)
          [] OTHER -> {}
        : i \in 1..Len(ns)}

\* a Loop node exists somewhere in the tree
RECURSIVE HasLoop(_)
HasLoop(ns) ==
    \E i \in 1..Len(ns) :
        LET n == ns[i] IN
        CASE n.kind = "For" -> TRUE
          [] n.kind = "If" -> HasLoop(n.if_nodes) \/ HasLoop(n.else_nodes)
          [] n.kind = "BlockFunction" -> HasLoop(n.body_nodes)
          [] OTHER -> FALSE

\* s[j] declares a parameter whose name an earlier sibling has declared
DuplicateAt(s, j) ==
    /\ s[j].kind = "With"
    /\ \E i \in 1..(j - 1) : s[i].kind = "With" /\ s[i].identifier = s[j].identifier

\* the duplicate declarations of the tree as <<name, range>>, in traversal order:
\* siblings in order, the then-branch before the else-branch
RECURSIVE Duplicates(_)
Duplicates(ns) ==
    Concat([i \in 1..Len(ns) |->
        LET n == ns[i] IN
        CASE n.kind = "With" ->
                IF DuplicateAt(ns, i) THEN <<(<<n.identifier, n.range>>)>> ELSE <<>>
          [] n.kind = "If" -> Duplicates(n.if_nodes) \o Duplicates(n.else_nodes)
          [] n.kind = "For" -> Duplicates(n.loop_nodes)
          [] n.kind = "BlockFunction" -> Duplicates(n.body_nodes)
          [] OTHER -> <<>>])

Finished == pc = "done" /\ result.tag = "Ok"

Failed == pc = "done" /\ result.tag = "Err"

\* the top-level nodes that render_lines has passed
Passed == SubSeq(nodes, 1, pos - 1)

\* the length builder_lines has once the first j top-level nodes are rendered,
\* for each of the nodes passed
LengthAfter ==
    [j \in 0..(pos - 1) |-> Len(render_lines(SubSeq(nodes, 1, j)).value.builder_lines)]

\* the part of builder_lines that top-level node j has added, given LengthAfter
Block(len, j) == SubSeq(builder_lines, len[j - 1] + 1, len[j])

-----------------------------------------------------------------------------
\* C1: in every sibling sequence, a With whose name an earlier With of the same
\* sequence has recorded makes render_lines return DuplicateParamName with that
\* name and the range of the later declaration, whatever the two types are; the
\* typed_params of a sequence that renders hold no name twice.
DuplicateParamRejected ==
    /\ \A i, j \in 1..Len(typed_params) :
            typed_params[i][1] = typed_params[j][1] => i = j
    /\ \A j \in 1..Len(nodes) :
            (DuplicateAt(nodes, j) /\ pos > j) =>
                /\ pos = j + 1
                /\ Failed
                /\ result.name = nodes[j].identifier
                /\ result.range = nodes[j].range
    /\ pc = "done" =>
        \A s \in AllScopes(nodes) :
            LET r == render_lines(s) IN
            /\ \A j \in 1..Len(s) :
                (DuplicateAt(s, j) /\ render_lines(SubSeq(s, 1, j - 1)).ok) =>
                    r = DuplicateParamName(s[j].identifier, s[j].range)
            /\ r.ok => \A i, j \in 1..Len(r.value.typed_params) :
                    r.value.typed_params[i][1] = r.value.typed_params[j][1] => i = j

\* a second declaration of a name with another type has been refused
DuplicateParamRejectedWitness ==
    /\ Failed
    /\ pos > 2
    /\ DuplicateAt(nodes, pos - 1)
    /\ \E i \in 1..(pos - 2) :
            /\ nodes[i].kind = "With"
            /\ nodes[i].identifier = nodes[pos - 1].identifier
            /\ nodes[i].type_ # nodes[pos - 1].type_
    /\ result.range = nodes[pos - 1].range

-----------------------------------------------------------------------------
\* the pieces of the output that follow a piece "import ": the paths imported
ImportedPaths(s) ==
    LET pairs == [k \in 1..(Len(s) - 1) |-> <<s[k], s[k + 1]>>]
        K(pair) == pair[1] = "import "
        kept == SelectSeq(pairs, K) IN
    [k \in 1..Len(kept) |-> kept[k][2]]

\* the parameter list "name name: Type, ..." of a sequence of With nodes
RECURSIVE ParamList(_)
ParamList(w) ==
    IF w = <<>> THEN ""
    ELSE w[1].identifier \o " " \o w[1].identifier \o ": " \o w[1].type_
         \o (IF Len(w) > 1 THEN ", " \o ParamList(Tail(w)) ELSE "")

\* the argument list "name: name, ..." of a sequence of With nodes
RECURSIVE ArgList(_)
ArgList(w) ==
    IF w = <<>> THEN ""
    ELSE w[1].identifier \o ": " \o w[1].identifier
         \o (IF Len(w) > 1 THEN ", " \o ArgList(Tail(w)) ELSE "")

IsLine(line) == LET L == Lines(result.output) IN \E k \in 1..Len(L) : L[k] = line

\* some sibling sequence of the tree declares a name twice
SomeScopeDeclaresTwice ==
    \E s \in AllScopes(nodes) : \E j \in 1..Len(s) : DuplicateAt(s, j)

\* C2: rendering a BlockFunction leaves the typed_params, imports and
\* has_template_content of the enclosing scope as they were: the typed_params and
\* imports of the top level are those of its own With and Import nodes and no
\* others, the imports of a function body are not among the imports of the
\* output, and a name declared at top level and again inside a function body is
\* no duplicate: render fails only when one sibling sequence declares a name
\* twice.
FunctionScopeKept ==
    /\ ~Failed =>
        /\ typed_params = [i \in 1..Len(OfKind(Passed, "With")) |->
                <<OfKind(Passed, "With")[i].identifier, OfKind(Passed, "With")[i].type_>>]
        /\ imports = [i \in 1..Len(OfKind(Passed, "Import")) |->
                OfKind(Passed, "Import")[i].import_details]
    /\ Finished =>
        /\ ImportedPaths(result.output) =
                [i \in 1..Len(OfKind(nodes, "Import")) |->
                    OfKind(nodes, "Import")[i].import_details]
    /\ Failed => SomeScopeDeclaresTwice
    /\ pc = "done" =>
        \A s \in AllScopes(nodes) : \A j \in 1..Len(s) :
            LET before == render_lines(SubSeq(s, 1, j - 1))
                after == render_lines(SubSeq(s, 1, j)) IN
            (s[j].kind = "BlockFunction" /\ after.ok) =>
                /\ after.value.typed_params = before.value.typed_params
                /\ after.value.imports = before.value.imports
                /\ after.value.has_template_content = before.value.has_template_content

\* a name declared at top level and again in a function body that also imports
FunctionScopeKeptWitness ==
    /\ Finished
    /\ Len(nodes) = 2
    /\ nodes[1].kind = "With"
    /\ nodes[2].kind = "BlockFunction"
    /\ \E i \in 1..Len(nodes[2].body_nodes) :
            /\ nodes[2].body_nodes[i].kind = "With"
            /\ nodes[2].body_nodes[i].identifier = nodes[1].identifier
    /\ \E i \in 1..Len(nodes[2].body_nodes) : nodes[2].body_nodes[i].kind = "Import"

-----------------------------------------------------------------------------
\* a top-level node that calls for the render functions
Renderable(n) ==
    \/ n.kind \in {"Identifier", "Builder", "If", "For", "With"}
    \/ n.kind = "Text" /\ \E i \in 1..Len(n.text) : n.text[i] \notin {" ", NL}

\* the output holds the render_builder/render pair
PairEmitted ==
    /\ \E k \in 1..Len(result.output) : result.output[k] = "pub fn render_builder("
    /\ \E k \in 1..Len(result.output) : result.output[k] = "pub fn render("

\* C3: the render_builder/render pair is in the output exactly when a top-level
\* node is a Text with a character that is no whitespace, an Identifier, a
\* Builder, an If, a For or a With; whitespace Text, Import and BlockFunction
\* nodes alone give neither function. has_template_content is true exactly when
\* such a node has been passed, so later whitespace never resets it.
ContentGating ==
    /\ Finished => (PairEmitted <=> \E i \in 1..Len(nodes) : Renderable(nodes[i]))
    /\ ~Failed => (has_template_content <=> \E i \in 1..(pos - 1) : Renderable(nodes[i]))

\* whitespace text and a function with a body of text: no render functions
ContentGatingWitness ==
    /\ Finished
    /\ ~PairEmitted
    /\ \E i \in 1..Len(nodes) : nodes[i].kind = "Text"
    /\ \E i \in 1..Len(nodes) :
            nodes[i].kind = "BlockFunction" /\ nodes[i].body_nodes # <<>>

-----------------------------------------------------------------------------
StatementKinds == {"Text", "Identifier", "Builder", "If", "For"}

\* the block opens as the statement of node n does
Opens(block, n) ==
    /\ Len(block) > 2
    /\ block[1] = (CASE n.kind = "Builder" ->
                            "    let builder = string_builder.append_builder(builder, "
                     [] n.kind = "If" -> "    let builder = case "
                     [] n.kind = "For" -> "    let builder = list.fold("
                     [] OTHER -> "    let builder = string_builder.append(builder, ")
    /\ block[2] = (CASE n.kind = "Text" -> Quote
                     [] n.kind = "If" -> n.identifier_name
                     [] n.kind = "For" -> n.list_identifier
                     [] OTHER -> n.name)
    /\ block[Len(block)] = NL

\* C5: each Text, Identifier, Builder, If and For node adds its one block at the
\* end of builder_lines, in input order, and no other node adds anything; the
\* parameter list (name name: Type) and the argument list (name: name) of the
\* render functions hold the declared parameters in declaration order.
OrderPreserved ==
    /\ ~Failed =>
        LET len == LengthAfter IN
        /\ Len(builder_lines) = len[pos - 1]
        /\ \A j \in 1..(pos - 1) :
                IF nodes[j].kind \in StatementKinds
                THEN Opens(Block(len, j), nodes[j])
                ELSE Block(len, j) = <<>>
    /\ (Finished /\ has_template_content) =>
        LET w == OfKind(nodes, "With")
            L == Lines(result.output) IN
        /\ \E k \in 1..Len(L) :
                L[k] = "pub fn render_builder(" \o ParamList(w) \o ") -> StringBuilder {"
        /\ \E k \in 1..Len(L) :
                L[k] = "pub fn render(" \o ParamList(w) \o ") -> String {"
        /\ \E k \in 1..Len(L) :
                L[k] = "    string_builder.to_string(render_builder(" \o ArgList(w) \o "))"

\* two parameters of different names and a statement after an earlier statement
OrderPreservedWitness ==
    /\ Finished
    /\ Len(OfKind(nodes, "With")) = 2
    /\ OfKind(nodes, "With")[1].identifier = "y"
    /\ OfKind(nodes, "With")[2].identifier = "x"
    /\ nodes[Len(nodes)].kind = "Identifier"

-----------------------------------------------------------------------------
\* the fourth line of the output, the one after the line that imports the
\* StringBuilder type: empty, or the import render adds for list.fold (the first
\* ten pieces of an output hold its first four lines)
ListImportSlot == Lines(SubSeq(result.output, 1, 10))[4]

-----------------------------------------------------------------------------
\* C6: in the output every top-level import is a line of its own, exactly
\* import <path>, in the original order with duplicates kept, before the
\* functions, whatever imports and functions there are.
ImportsOnOwnLines ==
    Finished =>
        LET L == Lines(result.output)
            paths == OfKind(nodes, "Import")
            first == IF L[4] = "" THEN 5 ELSE 6 IN
        \A i \in 1..Len(paths) :
            /\ first + i - 1 <= Len(L)
            /\ L[first + i - 1] = "import " \o paths[i].import_details

-----------------------------------------------------------------------------
\* the text with the backslash before each quote taken out
RECURSIVE Unescape(_)
Unescape(e) ==
    IF e = <<>> THEN <<>>
    ELSE IF Len(e) > 1 /\ e[1] = Backslash /\ e[2] = Quote
         THEN <<Quote>> \o Unescape(SubSeq(e, 3, Len(e)))
         ELSE <<e[1]>> \o Unescape(Tail(e))

Occurrences(text, c) == Cardinality({i \in 1..Len(text) : text[i] = c})

\* C7: the literal of the statement of a Text node is the text with a backslash
\* put before each double quote and nothing else changed: every quote of the
\* literal follows a backslash, the literal is longer than the text by its
\* number of quotes, and taking out the backslash before each quote gives the
\* text back.
QuotesEscaped ==
    ~Failed =>
        LET len == LengthAfter IN
        \A j \in 1..(pos - 1) :
            nodes[j].kind = "Text" =>
                LET b == Block(len, j)
                    text == nodes[j].text
                    literal == SubSeq(b, 3, Len(b) - 3) IN
                /\ SubSeq(b, 1, 2) =
                        <<"    let builder = string_builder.append(builder, ", Quote>>
                /\ SubSeq(b, Len(b) - 2, Len(b)) = <<Quote, ")", NL>>
                /\ Len(literal) = Len(text) + Occurrences(text, Quote)
                /\ \A i \in 1..Len(literal) :
                        literal[i] = Quote => (i > 1 /\ literal[i - 1] = Backslash)
                /\ Occurrences(literal, Quote) = Occurrences(text, Quote)
                /\ Unescape(literal) = text

\* a text with a quote, a backslash and a line feed has been rendered
QuotesEscapedWitness ==
    /\ ~Failed
    /\ pos = 2
    /\ nodes[1].kind = "Text"
    /\ Occurrences(nodes[1].text, Quote) = 1
    /\ Occurrences(nodes[1].text, Backslash) = 1
    /\ Occurrences(nodes[1].text, NL) = 1
    /\ builder_lines # <<>>

-----------------------------------------------------------------------------
\* C8: render gives all or nothing. The tree has a duplicate declaration exactly
\* when render returns an error, the error is the first duplicate in traversal
\* order with its name and range and carries no output, and render_lines has
\* stopped at the top-level node that holds it: the locals are those of the
\* nodes before it and no step follows.
FirstDuplicateReported ==
    pc = "done" =>
        LET d == Duplicates(nodes) IN
        /\ d = <<>> => Finished
        /\ d # <<>> => result = [tag |-> "Err", name |-> d[1][1], range |-> d[1][2]]
        /\ Failed =>
            /\ Duplicates(SubSeq(nodes, 1, pos - 2)) = <<>>
            /\ Duplicates(Passed) # <<>>
            /\ Ok(Locals) = render_lines(SubSeq(nodes, 1, pos - 2))
            /\ ~ENABLED Next

\* both branches of a conditional hold a duplicate: the then-branch's is reported
FirstDuplicateReportedWitness ==
    /\ Failed
    /\ nodes[1].kind = "If"
    /\ Duplicates(nodes[1].if_nodes) # <<>>
    /\ Duplicates(nodes[1].else_nodes) # <<>>
    /\ result.range = Duplicates(nodes[1].if_nodes)[1][2]
    /\ result.range # Duplicates(nodes[1].else_nodes)[1][2]

-----------------------------------------------------------------------------
\* the lines of one arm: the indentation, the statements of the branch and then
\* the accumulator
ArmLines(branch) ==
    Lines(<<"            ">> \o render_lines(branch).value.builder_lines
          \o <<NL, "            builder">>)

\* C9: an If node adds one branch statement with a True arm and a False arm;
\* each arm holds the statements of its own branch and then the accumulator, the
\* arm of an empty branch holds the accumulator alone, and has_template_content
\* is true after it whatever the branches hold.
ConditionalArms ==
    /\ ~Failed =>
        LET len == LengthAfter IN
        \A j \in 1..(pos - 1) :
            nodes[j].kind = "If" =>
                LET n == nodes[j]
                    L == Lines(Block(len, j)) IN
                /\ has_template_content
                /\ L = <<"    let builder = case " \o n.identifier_name \o " {",
                         "        True -> {">>
                       \o ArmLines(n.if_nodes)
                       \o <<"        }", "        False -> {">>
                       \o ArmLines(n.else_nodes)
                       \o <<"        }", "}", "">>
                /\ n.if_nodes = <<>> =>
                        SubSeq(L, 3, 4) = <<"            ", "            builder">>
                /\ n.else_nodes = <<>> =>
                        SubSeq(L, Len(L) - 4, Len(L) - 3) =
                            <<"            ", "            builder">>
    /\ pc = "done" =>
        \A s \in AllScopes(nodes) : \A j \in 1..Len(s) :
            LET after == render_lines(SubSeq(s, 1, j)) IN
            (s[j].kind = "If" /\ after.ok) => after.value.has_template_content

\* a conditional with a statement in its then-branch and an empty else-branch
ConditionalArmsWitness ==
    /\ ~Failed
    /\ pos > 1
    /\ nodes[1].kind = "If"
    /\ nodes[1].if_nodes # <<>>
    /\ nodes[1].else_nodes = <<>>
    /\ has_template_content
    /\ Len(Lines(builder_lines)) > 7

-----------------------------------------------------------------------------
\* the pieces of the output that follow a piece "fn ": the heads of its functions
FunctionHeads(s) ==
    LET pairs == [k \in 1..(Len(s) - 1) |-> <<s[k], s[k + 1]>>]
        K(pair) == pair[1] = "fn "
        kept == SelectSeq(pairs, K) IN
    [k \in 1..Len(kept) |-> kept[k][2]]

\* C10: the output holds one generated function for each BlockFunction among the
\* top-level nodes, in input order, a blank line between two of them; a
\* BlockFunction inside a branch, a loop body or a function body gives none, and
\* a For node inside it still brings the import of gleam/list.
TopLevelFunctionsOnly ==
    Finished =>
        LET fns == OfKind(nodes, "BlockFunction")
            out == result.output IN
        /\ Len(functions) = Len(fns)
        /\ FunctionHeads(out) = [i \in 1..Len(fns) |-> fns[i].head]
        /\ \A i \in 1..Len(fns) :
                functions[i][2] = "fn " /\ functions[i][3] = fns[i].head
        /\ \A k \in 1..Len(out) :
                (out[k] = "fn " /\ \E h \in 1..(k - 1) : out[h] = "fn ") =>
                    SubSeq(out, k - 4, k - 2) = <<"}", NL, NL>>
        /\ HasLoop(nodes) => ListImportSlot = "import gleam/list"

\* a function with a loop, inside the then-branch of a conditional
TopLevelFunctionsOnlyWitness ==
    /\ Finished
    /\ Len(nodes) = 1
    /\ nodes[1].kind = "If"
    /\ Len(nodes[1].if_nodes) = 1
    /\ nodes[1].if_nodes[1].kind = "BlockFunction"
    /\ HasLoop(nodes[1].if_nodes[1].body_nodes)
    /\ FunctionHeads(result.output) = <<>>
    /\ ListImportSlot = "import gleam/list"

====
